---- MODULE Spec2Model ----
(***************************************************************************)
(* Casualty Exposure Explorer (src/app.py): the Streamlit script that      *)
(* loads the "Policies" sheet, normalises it (load_policies), filters it   *)
(* through ten multiselect widgets, computes five KPIs and exports the     *)
(* filtered subset.                                                        *)
(*                                                                         *)
(* One run of the script is the sequence of steps                          *)
(*   load -> widgets -> filter -> kpis -> charts -> export -> done         *)
(* and every user interaction (an upload, one click in a multiselect)      *)
(* starts a new run from the top, as Streamlit does.                       *)
(*                                                                         *)
(* Cells are tagged tuples, so that cells of different types compare:      *)
(*   <<"num", n>>  a number          <<"str", s>>  a text cell             *)
(*   <<"date", y, m, d>> a date      <<"null">>    NaN / NaT / empty cell  *)
(*   <<"absent">>  the column does not exist in the table                  *)
(* Amounts are whole numbers (the thresholds of the bands are integers;    *)
(* Share is 0 or 1, so Limit * Share stays whole).                         *)
(***************************************************************************)
EXTENDS Integers, Sequences, FiniteSets, TLC

VARIABLES
    disk,     \* the workbook at DEFAULT_DATA (or NoFile)
    upl,      \* the file uploader's value: a workbook, or NoFile for None
    cache,    \* st.cache_data of load_policies: the cached table, or NoTable
    df,       \* the table of the current run
    opts,     \* the options each multiselect was last built with
    sel,      \* the multiselects' values (widget state of the session)
    f,        \* the filtered table of the current run
    kpi,      \* the five metrics of the current run
    out,      \* the workbook written by the last export (or NoFile)
    outOf,    \* the table that export was given
    pc,       \* position of the script
    err,      \* how the current run ended: the exception, or "none"
    shown,    \* the filter widgets of the page are on screen
    reruns,   \* user interactions so far
    bx,       \* band check: the input cell
    lband,    \* band check: band_limit(bx), once applied
    aband     \* band check: band_attach(bx), once applied

vars == <<disk, upl, cache, df, opts, sel, f, kpi, out, outOf, pc, err, shown,
          reruns, bx, lband, aband>>

(***************************************************************************)
(* Bounds of the model.                                                    *)
(***************************************************************************)
MaxRows == 2     \* rows of a workbook
MaxReruns == 2   \* user interactions in a session
MaxDelta == 2    \* band inputs lie within MaxDelta of a threshold

(***************************************************************************)
(* Cells.                                                                  *)
(***************************************************************************)
NULL == <<"null">>
ABSENT == <<"absent">>
Num(n) == <<"num", n>>
Str(s) == <<"str", s>>
Date(y, m, d) == <<"date", y, m, d>>
IsNum(c) == c[1] = "num"
IsStr(c) == c[1] = "str"
IsDate(c) == c[1] = "date"

(***************************************************************************)
(* Columns.                                                                *)
(***************************************************************************)
date_cols == {"Effective_Date", "Expiration_Date"}
num_cols == {"Annual_Premium", "Limit_Per_Occurrence", "Limit_Aggregate",
             "Attachment_Point", "Share"}
CategoryCols == {"UY", "LOB", "Sub_LOB", "Policy_Type", "Business_ID",
                 "Ceding_Company", "MGA", "Venue"}
RawCols == {"Policy_Number"} \cup CategoryCols \cup date_cols \cup num_cols
DerivedCols == {"MGA_Flag", "Inception_Month", "Limit_Band", "Attachment_Band",
                "Exposed_Limit"}
AllCols == RawCols \cup DerivedCols
\* the ten columns of the sidebar, in the order of the mask
FilterCols == <<"UY", "LOB", "Sub_LOB", "Policy_Type", "Business_ID",
                "Ceding_Company", "MGA", "Venue", "Limit_Band", "Attachment_Band">>
FilterColSet == {FilterCols[i] : i \in 1..Len(FilterCols)}

(***************************************************************************)
(* Tables and workbooks.  A row is a function on AllCols; a column that    *)
(* the table does not have holds ABSENT in every row.                      *)
(***************************************************************************)
NoTable == [cols |-> {}, rows |-> <<>>]
NoFile == [sheet |-> "", cols |-> {}, rows |-> <<>>]
Project(r, cols) == [c \in AllCols |-> IF c \in cols THEN r[c] ELSE ABSENT]
Workbook(sheet, cols, rows) ==
    [sheet |-> sheet, cols |-> cols,
     rows |-> [i \in 1..Len(rows) |-> Project(rows[i], cols)]]
\* DataFrame.empty: an axis of length 0
Empty(t) == t.cols = {} \/ t.rows = <<>>
Column(t, c) == [i \in 1..Len(t.rows) |-> t.rows[i][c]]

(***************************************************************************)
(* The bands of load_policies.  A comparison with NaN is false, so a null  *)
(* input falls through every threshold.                                    *)
(***************************************************************************)
Le(x, n) == IsNum(x) /\ x[2] <= n
Eq(x, n) == IsNum(x) /\ x[2] = n

band_limit_strict(x) ==
    IF IsNum(x) /\ x[2] < 1000000 THEN Str("$1M")
    ELSE IF IsNum(x) /\ x[2] < 2000000 THEN Str("$2M")
    ELSE IF IsNum(x) /\ x[2] < 3000000 THEN Str("$3M")
    ELSE IF IsNum(x) /\ x[2] < 5000000 THEN Str("$5M")
    ELSE Str("$10M+")

band_limit(x) ==
    IF Le(x, 1000000) THEN Str("$1M")
    ELSE IF Le(x, 2000000) THEN Str("$2M")
    ELSE IF Le(x, 3000000) THEN Str("$3M")
    ELSE IF Le(x, 5000000) THEN Str("$5M")
    ELSE Str("$10M+")

band_attach_nonpositive(x) ==
    IF Le(x, 0) THEN Str("$0 (Primary)")
    ELSE IF Le(x, 1000000) THEN Str("$1M")
    ELSE IF Le(x, 2000000) THEN Str("$2M")
    ELSE IF Le(x, 5000000) THEN Str("$5M")
    ELSE Str("$10M+")

band_attach(x) ==
    IF Eq(x, 0) THEN Str("$0 (Primary)")
    ELSE IF Le(x, 1000000) THEN Str("$1M")
    ELSE IF Le(x, 2000000) THEN Str("$2M")
    ELSE IF Le(x, 5000000) THEN Str("$5M")
    ELSE Str("$10M+")

(***************************************************************************)
(* pd.read_excel(file, sheet_name="Policies"): raises when the file or the *)
(* sheet does not exist; a text cell holding one of pandas' default NA     *)
(* strings ("N/A") is read as NaN.                                         *)
(***************************************************************************)
ReadCell(c) == IF c = Str("N/A") THEN NULL ELSE c
read_excel(file) ==
    IF file.sheet # "Policies"
    THEN [ok |-> FALSE, tab |-> NoTable]
    ELSE [ok |-> TRUE,
          tab |-> [cols |-> file.cols,
                   rows |-> [i \in 1..Len(file.rows) |->
                               [c \in AllCols |-> ReadCell(file.rows[i][c])]]]]

(***************************************************************************)
(* load_policies.                                                          *)
(***************************************************************************)
\* pd.to_datetime(df[c]): a text that is no date raises (errors="raise")
DateRaises(t) ==
    \E c \in date_cols \cap t.cols : \E i \in 1..Len(t.rows) : IsStr(t.rows[i][c])
\* pd.to_numeric(df[c], errors="coerce")
to_numeric(c) == IF IsNum(c) THEN c ELSE NULL
\* np.where(df["MGA"].fillna("N/A") == "N/A", "No MGA", "MGA")
MGA_Flag(m) == IF (IF m = NULL THEN Str("N/A") ELSE m) = Str("N/A")
               THEN Str("No MGA") ELSE Str("MGA")
\* .dt.to_period("M").dt.to_timestamp(): the first day of the month
Inception_Month(d) == IF IsDate(d) THEN Date(d[2], d[3], 1) ELSE NULL
\* df["Limit_Per_Occurrence"] * df["Share"]: NaN when an operand is NaN
Exposed_Limit(l, s) == IF IsNum(l) /\ IsNum(s) THEN Num(l[2] * s[2]) ELSE NULL

\* the row after the dtype coercions (lines 26-33)
Coerce(t, r) ==
    [c \in AllCols |->
        IF c \in num_cols \cap t.cols THEN to_numeric(r[c]) ELSE r[c]]

\* the row with the derived columns (lines 35-54)
Derive(t, r) ==
    [c \in AllCols |->
        CASE c = "MGA_Flag" -> IF "MGA" \in t.cols THEN MGA_Flag(r["MGA"]) ELSE r[c]
          [] c = "Inception_Month" ->
                IF "Effective_Date" \in t.cols
                THEN Inception_Month(r["Effective_Date"]) ELSE r[c]
          [] c = "Limit_Band" -> band_limit(r["Limit_Per_Occurrence"])
          [] c = "Attachment_Band" -> band_attach(r["Attachment_Point"])
          [] c = "Exposed_Limit" -> Exposed_Limit(r["Limit_Per_Occurrence"], r["Share"])
          [] OTHER -> r[c]]

DerivedAdded(t) ==
    (IF "MGA" \in t.cols THEN {"MGA_Flag"} ELSE {})
    \cup (IF "Effective_Date" \in t.cols THEN {"Inception_Month"} ELSE {})
    \cup {"Limit_Band", "Attachment_Band", "Exposed_Limit"}

Normalize(t) ==
    [cols |-> t.cols \cup DerivedAdded(t),
     rows |-> [i \in 1..Len(t.rows) |-> Derive(t, Coerce(t, t.rows[i]))]]

NoErr == [kind |-> "none", at |-> "none", what |-> "none"]
Raise(kind, at, what) == [kind |-> kind, at |-> at, what |-> what]

\* the first of df["Limit_Per_Occurrence"], df["Attachment_Point"], df["Share"]
\* that is no column of the table (lines 52-54), or "none"
FirstMissing(t) ==
    IF "Limit_Per_Occurrence" \notin t.cols THEN "Limit_Per_Occurrence"
    ELSE IF "Attachment_Point" \notin t.cols THEN "Attachment_Point"
    ELSE IF "Share" \notin t.cols THEN "Share"
    ELSE "none"

load_policies(file) ==
    LET r == read_excel(file)
        t == IF r.ok THEN r.tab ELSE NoTable      \* except Exception: DataFrame()
    IN  IF Empty(t) THEN [err |-> NoErr, tab |-> t]
        ELSE IF DateRaises(t)
             THEN [err |-> Raise("ValueError", "load", "to_datetime"), tab |-> NoTable]
        ELSE IF FirstMissing(t) # "none"
             THEN [err |-> Raise("KeyError", "load", FirstMissing(t)), tab |-> NoTable]
        ELSE [err |-> NoErr, tab |-> Normalize(t)]

(***************************************************************************)
(* The widgets of the sidebar (lines 93-109).                              *)
(***************************************************************************)
\* sorted(df[c].dropna().unique().tolist())
Options(t, c) == {t.rows[i][c] : i \in 1..Len(t.rows)} \ {NULL}
\* the UY multiselect starts with every year selected, the others with none
DefaultSel(t, c) == IF c = "UY" THEN Options(t, c) ELSE {}
\* the first of the ten columns that df[c] does not find, or "none"
FirstAbsent(t) ==
    IF \A i \in 1..Len(FilterCols) : FilterCols[i] \in t.cols THEN "none"
    ELSE FilterCols[CHOOSE i \in 1..Len(FilterCols) :
                       /\ FilterCols[i] \notin t.cols
                       /\ \A j \in 1..(i - 1) : FilterCols[j] \in t.cols]

(***************************************************************************)
(* The filter (lines 111-128).  apply_filter gives a boolean Series, or    *)
(* the Python scalar True for an empty selection; True & Series is the     *)
(* Series, True & True stays the scalar, and DataFrame.loc[True] raises    *)
(* KeyError on the table's integer index.                                  *)
(***************************************************************************)
Scalar == <<"True">>
Series(s) == <<"Series", s>>
IsScalar(m) == m[1] = "True"

\* series.isin(values) if values else True
apply_filter(t, c, values) ==
    IF values # {} THEN Series([i \in 1..Len(t.rows) |-> t.rows[i][c] \in values])
    ELSE Scalar

\* a & b
And(a, b) ==
    IF IsScalar(a) THEN b
    ELSE IF IsScalar(b) THEN a
    ELSE Series([i \in 1..Len(a[2]) |-> a[2][i] /\ b[2][i]])

RECURSIVE MaskFrom(_, _, _)
\* the conjunction over the columns FilterCols[1..k], left to right
MaskFrom(t, s, k) ==
    IF k = 0 THEN Scalar
    ELSE IF k = 1 THEN apply_filter(t, FilterCols[1], s[FilterCols[1]])
    ELSE And(MaskFrom(t, s, k - 1), apply_filter(t, FilterCols[k], s[FilterCols[k]]))

mask(t, s) == MaskFrom(t, s, Len(FilterCols))

RECURSIVE Loc(_, _, _)
\* the rows 1..k of rows whose mask entry is True, in order
Loc(rows, m, k) ==
    IF k = 0 THEN <<>>
    ELSE IF m[k] THEN Append(Loc(rows, m, k - 1), rows[k])
    ELSE Loc(rows, m, k - 1)

\* f.loc[mask].copy() for a boolean Series
Filtered(t, m) == [cols |-> t.cols, rows |-> Loc(t.rows, m[2], Len(t.rows))]

(***************************************************************************)
(* The KPIs (lines 130-137).  Series.sum() skips NaN; primary_pct is kept  *)
(* in tenths of a percent, as the metric shows it ({:,.1f}).               *)
(***************************************************************************)
RECURSIVE SumCells(_, _)
SumCells(cells, k) ==
    IF k = 0 THEN 0
    ELSE SumCells(cells, k - 1) + (IF IsNum(cells[k]) THEN cells[k][2] ELSE 0)

Products(t) ==
    [i \in 1..Len(t.rows) |->
        Exposed_Limit(t.rows[i]["Limit_Per_Occurrence"], t.rows[i]["Share"])]

\* 100.0 * (f["Policy_Type"].eq("Primary").mean() if not f.empty else 0.0)
primary_pct(t) ==
    IF Empty(t) THEN 0
    ELSE LET n == Len(t.rows)
             p == Cardinality({i \in 1..n : t.rows[i]["Policy_Type"] = Str("Primary")})
         IN  (2000 * p + n) \div (2 * n)

NoKpi == [policies |-> -1, premium |-> -1, exposed |-> -1, primary_pct |-> -1,
          treaties |-> -1]

KpiOf(t) ==
    [policies |-> Len(t.rows),
     premium |-> SumCells(Column(t, "Annual_Premium"), Len(t.rows)),
     exposed |-> SumCells(Products(t), Len(t.rows)),
     primary_pct |-> primary_pct(t),
     treaties |-> Cardinality(Options(t, "Business_ID"))]

KpiCols == {"Annual_Premium", "Limit_Per_Occurrence", "Share", "Policy_Type",
            "Business_ID"}

(***************************************************************************)
(* The charts (lines 141-184), as far as they can stop the run: the        *)
(* columns they read, and sorted(f["LOB"].unique()), which compares NaN    *)
(* with a string when the subset holds both.                               *)
(***************************************************************************)
ChartCols == {"UY", "Annual_Premium", "LOB", "Ceding_Company", "Venue",
              "Exposed_Limit", "Policy_Number", "Attachment_Point",
              "Limit_Per_Occurrence", "Policy_Type", "Business_ID", "Sub_LOB",
              "Limit_Band"}
SortRaises(t) ==
    /\ \E i \in 1..Len(t.rows) : t.rows[i]["LOB"] = NULL
    /\ \E i \in 1..Len(t.rows) : IsStr(t.rows[i]["LOB"])

(***************************************************************************)
(* to_excel_bytes (lines 190-195): one sheet, "Policies_Filtered", the     *)
(* table's columns in order, NaN as an empty cell.                         *)
(***************************************************************************)
\* a number, a text and a date are written as cells of their kind (dates with
\* the number format yyyy-mm-dd), NaN and NaT as an empty cell
WriteCell(c) == IF IsNum(c) \/ IsStr(c) \/ IsDate(c) THEN c ELSE NULL
ExportSheet == "Policies_Filtered"
to_excel_bytes(t) ==
    [sheet |-> ExportSheet, cols |-> t.cols,
     rows |-> [i \in 1..Len(t.rows) |->
                 [c \in AllCols |-> IF c \in t.cols THEN WriteCell(t.rows[i][c])
                                    ELSE ABSENT]]]

(***************************************************************************)
(* The workbooks of the model.                                             *)
(***************************************************************************)
RowA ==
    [c \in AllCols |->
        CASE c = "Policy_Number" -> Str("P1")
          [] c = "UY" -> Num(2023)
          [] c = "LOB" -> Str("GL")
          [] c = "Sub_LOB" -> Str("Premises")
          [] c = "Policy_Type" -> Str("Primary")
          [] c = "Business_ID" -> Str("T1")
          [] c = "Ceding_Company" -> Str("Cedent1")
          [] c = "MGA" -> Str("N/A")
          [] c = "Venue" -> Str("NY")
          [] c = "Effective_Date" -> Date(2023, 1, 15)
          [] c = "Expiration_Date" -> Date(2024, 1, 15)
          [] c = "Annual_Premium" -> Num(100)
          [] c = "Limit_Per_Occurrence" -> Num(1000000)
          [] c = "Limit_Aggregate" -> Num(2000000)
          [] c = "Attachment_Point" -> Num(0)
          [] c = "Share" -> Num(1)
          [] OTHER -> ABSENT]
\* an excess policy of another year, line and treaty, with no share
RowB ==
    [RowA EXCEPT !["Policy_Number"] = Str("P2"), !["UY"] = Num(2024),
                 !["LOB"] = Str("Auto"), !["Policy_Type"] = Str("Excess"),
                 !["Business_ID"] = Str("T2"), !["MGA"] = Str("MGA1"),
                 !["Annual_Premium"] = Num(250),
                 !["Limit_Per_Occurrence"] = Num(5000001),
                 !["Attachment_Point"] = Num(1000000), !["Share"] = Num(0)]
\* empty cells, and text in numeric cells
RowC ==
    [RowA EXCEPT !["Policy_Number"] = Str("P3"), !["UY"] = NULL, !["LOB"] = NULL,
                 !["Business_ID"] = NULL, !["MGA"] = NULL,
                 !["Effective_Date"] = NULL,
                 !["Annual_Premium"] = Str("TBD"),
                 !["Limit_Per_Occurrence"] = Str("unlimited"),
                 !["Attachment_Point"] = NULL, !["Share"] = NULL]
\* a date cell holding text that is no date
RowD ==
    [RowA EXCEPT !["Policy_Number"] = Str("P4"),
                 !["Effective_Date"] = Str("not a date")]
Catalogue == {RowA, RowB, RowC, RowD}

\* Policy_Number is the key of a dataset: no row twice
Tables(S) ==
    UNION {{t \in [1..n -> S] : \A i, j \in 1..n : t[i] = t[j] => i = j} :
              n \in 0..MaxRows}

\* every column of the schema, any rows
GoodFiles == {Workbook("Policies", RawCols, rows) : rows \in Tables(Catalogue)}
\* columns of the schema left out
MissingChoices == {{"Limit_Per_Occurrence"}, {"Attachment_Point"}, {"Share"},
                   {"Limit_Per_Occurrence", "Share"}, {"UY"}, {"MGA"},
                   {"Effective_Date"}, {"Annual_Premium"}}
MissingFiles == {Workbook("Policies", RawCols \ m, <<r>>) :
                    m \in MissingChoices, r \in {RowA, RowB}}
\* a workbook without a "Policies" sheet
WrongSheet == Workbook("Sheet1", RawCols, <<RowA>>)
\* workbooks that already carry derived columns: as load_policies derives
\* them, or with a Limit_Band left over from another limit
FullA == Normalize(read_excel(Workbook("Policies", RawCols, <<RowA>>)).tab).rows[1]
FullB == Normalize(read_excel(Workbook("Policies", RawCols, <<RowB>>)).tab).rows[1]
StaleA == [FullA EXCEPT !["MGA"] = Str("N/A"), !["Limit_Band"] = Str("$5M")]
DerivedFiles == {Workbook("Policies", AllCols, rows) :
                    rows \in {<<FullB>>, <<StaleA>>, <<StaleA, FullB>>}}

DiskFiles == GoodFiles \cup MissingFiles \cup DerivedFiles \cup {WrongSheet, NoFile}
UploadFiles == DerivedFiles
               \cup {WrongSheet, Workbook("Policies", RawCols, <<RowC>>),
                     Workbook("Policies", RawCols, <<>>)}

(***************************************************************************)
(* Band inputs: the values around every threshold, and NaN.                *)
(***************************************************************************)
Thresholds == {0, 1000000, 2000000, 3000000, 5000000, 10000000}
BandInputs == {t + d : t \in Thresholds, d \in (-MaxDelta)..MaxDelta}
Unset == <<"unset">>

(***************************************************************************)
(* The session.                                                            *)
(***************************************************************************)
NoCache == [set |-> FALSE, err |-> NoErr, tab |-> NoTable]
Idle == {"done", "stopped", "crashed"}

InitSession ==
    /\ upl = NoFile
    /\ cache = NoCache
    /\ df = NoTable
    /\ opts = [c \in FilterColSet |-> {ABSENT}]
    /\ sel = [c \in FilterColSet |-> {}]
    /\ f = NoTable
    /\ kpi = NoKpi
    /\ out = NoFile
    /\ outOf = NoTable
    /\ pc = "load"
    /\ err = NoErr
    /\ shown = FALSE
    /\ reruns = 0

Init ==
    /\ disk \in DiskFiles
    /\ InitSession
    /\ bx = Unset /\ lband = Unset /\ aband = Unset

bandVars == <<bx, lband, aband>>
fileVars == <<disk, out, outOf>>

\* the run ends with an uncaught exception
Crash(e) == pc' = "crashed" /\ err' = e

\* lines 76-90, no upload: df = load_policies(DEFAULT_DATA), through the cache
\* (st.cache_data keeps a returned value, not an exception)
LoadDefault ==
    /\ pc = "load" /\ upl = NoFile
    /\ LET r == IF cache.set THEN [err |-> NoErr, tab |-> cache.tab]
                ELSE load_policies(disk)
       IN  /\ cache' = IF r.err = NoErr
                       THEN [set |-> TRUE, err |-> NoErr, tab |-> r.tab] ELSE cache
           /\ df' = r.tab
           /\ IF r.err # NoErr THEN Crash(r.err)
              ELSE IF Empty(r.tab)
                   THEN pc' = "stopped" /\ err' = Raise("NoData", "load", "st.stop")
              ELSE pc' = "widgets" /\ err' = NoErr
    /\ UNCHANGED <<upl, opts, sel, f, kpi, shown, reruns>>
    /\ UNCHANGED fileVars /\ UNCHANGED bandVars

\* lines 76-90, an upload: df = pd.read_excel(upl, sheet_name="Policies")
LoadUpload ==
    /\ pc = "load" /\ upl # NoFile
    /\ LET r == read_excel(upl)
       IN  /\ df' = r.tab
           /\ IF ~r.ok THEN Crash(Raise("ValueError", "load", "Policies"))
              ELSE IF Empty(r.tab)
                   THEN pc' = "stopped" /\ err' = Raise("NoData", "load", "st.stop")
              ELSE pc' = "widgets" /\ err' = NoErr
    /\ UNCHANGED <<upl, cache, opts, sel, f, kpi, shown, reruns>>
    /\ UNCHANGED fileVars /\ UNCHANGED bandVars

\* lines 93-109: the ten multiselects.  A widget whose options are those of
\* the last run keeps its value; a widget with new options starts at its default
Widgets ==
    /\ pc = "widgets"
    /\ IF FirstAbsent(df) # "none"
       THEN /\ Crash(Raise("KeyError", "widgets", FirstAbsent(df)))
            /\ UNCHANGED <<opts, sel, shown>>
       ELSE /\ opts' = [c \in FilterColSet |-> Options(df, c)]
            /\ sel' = [c \in FilterColSet |->
                         IF opts[c] = Options(df, c) THEN sel[c] ELSE DefaultSel(df, c)]
            /\ shown' = TRUE
            /\ pc' = "filter" /\ err' = NoErr
    /\ UNCHANGED <<upl, cache, df, f, kpi, reruns>>
    /\ UNCHANGED fileVars /\ UNCHANGED bandVars

\* mutant: the filter narrows df itself, so the next evaluation starts from it
FilterInPlace ==
    /\ pc = "filter"
    /\ LET m == mask(df, sel)
       IN  IF IsScalar(m)
           THEN Crash(Raise("KeyError", "filter", "True")) /\ UNCHANGED <<f, df, cache>>
           ELSE /\ f' = Filtered(df, m)
                /\ df' = Filtered(df, m)
                /\ cache' = IF cache.set THEN [cache EXCEPT !.tab = Filtered(df, m)]
                            ELSE cache
                /\ pc' = "kpis" /\ err' = NoErr
    /\ UNCHANGED <<upl, opts, sel, kpi, shown, reruns>>
    /\ UNCHANGED fileVars /\ UNCHANGED bandVars

\* lines 111-128: f = df.copy(); f = f.loc[mask].copy()
Filter ==
    /\ pc = "filter"
    /\ LET m == mask(df, sel)
       IN  IF IsScalar(m)
           THEN Crash(Raise("KeyError", "filter", "True")) /\ UNCHANGED f
           ELSE f' = Filtered(df, m) /\ pc' = "kpis" /\ err' = NoErr
    /\ UNCHANGED <<upl, cache, df, opts, sel, kpi, shown, reruns>>
    /\ UNCHANGED fileVars /\ UNCHANGED bandVars

\* mutant: the metrics are taken from the whole table
KPIsUnfiltered ==
    /\ pc = "kpis"
    /\ kpi' = KpiOf(df) /\ pc' = "charts" /\ err' = NoErr
    /\ UNCHANGED <<upl, cache, df, opts, sel, f, shown, reruns>>
    /\ UNCHANGED fileVars /\ UNCHANGED bandVars

\* lines 130-137
KPIs ==
    /\ pc = "kpis"
    /\ IF KpiCols \subseteq f.cols
       THEN kpi' = KpiOf(f) /\ pc' = "charts" /\ err' = NoErr
       ELSE /\ Crash(Raise("KeyError", "kpis", "Annual_Premium"))
            /\ UNCHANGED kpi
    /\ UNCHANGED <<upl, cache, df, opts, sel, f, shown, reruns>>
    /\ UNCHANGED fileVars /\ UNCHANGED bandVars

\* lines 141-184: drawn only for a subset with rows
Charts ==
    /\ pc = "charts"
    /\ IF Empty(f) THEN pc' = "export" /\ err' = NoErr
       ELSE IF ~(ChartCols \subseteq f.cols)
            THEN Crash(Raise("KeyError", "charts", "column"))
       ELSE IF SortRaises(f) THEN Crash(Raise("TypeError", "charts", "sorted"))
       ELSE pc' = "export" /\ err' = NoErr
    /\ UNCHANGED <<upl, cache, df, opts, sel, f, kpi, shown, reruns>>
    /\ UNCHANGED fileVars /\ UNCHANGED bandVars

\* lines 186-201: the table and the two download buttons
Export ==
    /\ pc = "export"
    /\ out' = to_excel_bytes(f) /\ outOf' = f
    /\ pc' = "done" /\ err' = NoErr
    /\ UNCHANGED <<disk, upl, cache, df, opts, sel, f, kpi, shown, reruns>>
    /\ UNCHANGED bandVars

\* a user interaction reruns the script from the top, in a fresh namespace
Rerun ==
    /\ pc \in Idle /\ reruns < MaxReruns
    /\ reruns' = reruns + 1
    /\ pc' = "load" /\ err' = NoErr /\ shown' = FALSE
    /\ df' = NoTable /\ f' = NoTable /\ kpi' = NoKpi
    /\ UNCHANGED <<cache, opts>> /\ UNCHANGED fileVars /\ UNCHANGED bandVars

\* line 72: the user uploads a workbook: one of the model's, or the last export
Upload ==
    /\ Rerun /\ UNCHANGED sel
    /\ \E w \in UploadFiles \cup ({out} \ {NoFile}) : upl' = w /\ w # upl

\* line 72: the user removes the upload
RemoveUpload ==
    /\ Rerun /\ UNCHANGED sel
    /\ upl # NoFile /\ upl' = NoFile

\* lines 97-109: the user adds or removes one option of one multiselect
Toggle ==
    /\ shown
    /\ Rerun /\ UNCHANGED upl
    /\ \E c \in FilterColSet : \E v \in opts[c] :
          sel' = [sel EXCEPT ![c] = IF v \in sel[c] THEN sel[c] \ {v}
                                    ELSE sel[c] \cup {v}]

Next ==
    \/ LoadDefault \/ LoadUpload \/ Widgets \/ Filter \/ KPIs \/ Charts \/ Export
    \/ Upload \/ RemoveUpload \/ Toggle

Spec == Init /\ [][Next]_vars

(***************************************************************************)
(* The bands on their own: band_limit and band_attach applied to one       *)
(* input.                                                                  *)
(***************************************************************************)
InitBands ==
    /\ disk = NoFile
    /\ InitSession
    /\ bx \in {Num(v) : v \in BandInputs} \cup {NULL}
    /\ lband = Unset /\ aband = Unset

sessionVars == <<disk, upl, cache, df, opts, sel, f, kpi, out, outOf, pc, err,
                 shown, reruns>>

\* line 52: df["Limit_Band"] = df["Limit_Per_Occurrence"].apply(band_limit)
ApplyBandLimit ==
    /\ lband = Unset /\ lband' = band_limit(bx)
    /\ UNCHANGED <<bx, aband>> /\ UNCHANGED sessionVars

\* line 53: df["Attachment_Band"] = df["Attachment_Point"].apply(band_attach)
ApplyBandAttach ==
    /\ aband = Unset /\ aband' = band_attach(bx)
    /\ UNCHANGED <<bx, lband>> /\ UNCHANGED sessionVars

NextBands == ApplyBandLimit \/ ApplyBandAttach

SpecBands == InitBands /\ [][NextBands]_vars

(***************************************************************************)
(* Properties.                                                             *)
(***************************************************************************)
\* the workbook the current run loads
Source == IF upl # NoFile THEN upl ELSE disk
\* the load of the current run has ended: with a table, a stop or an exception
LoadEnded == pc = "widgets" \/ (pc \in {"crashed", "stopped"} /\ err.at = "load")
\* a record matches a selection: a member of every non-empty accepted set
Matches(r, s) == \A c \in FilterColSet : s[c] # {} => r[c] \in s[c]
MatchIdx(t, s) == {i \in 1..Len(t.rows) : Matches(t.rows[i], s)}
RECURSIVE MatchRows(_, _, _)
MatchRows(t, s, k) ==
    IF k = 0 THEN <<>>
    ELSE IF Matches(t.rows[k], s) THEN Append(MatchRows(t, s, k - 1), t.rows[k])
    ELSE MatchRows(t, s, k - 1)
RECURSIVE SumIdx(_, _, _)
\* the sum of the numbers of column c over the rows I (cells that are no number skipped)
SumIdx(t, c, I) ==
    IF I = {} THEN 0
    ELSE LET i == CHOOSE j \in I : TRUE
         IN  (IF IsNum(t.rows[i][c]) THEN t.rows[i][c][2] ELSE 0)
             + SumIdx(t, c, I \ {i})
RECURSIVE SumExposedIdx(_, _)
SumExposedIdx(t, I) ==
    IF I = {} THEN 0
    ELSE LET i == CHOOSE j \in I : TRUE
             l == t.rows[i]["Limit_Per_Occurrence"]
             sh == t.rows[i]["Share"]
         IN  (IF IsNum(l) /\ IsNum(sh) THEN l[2] * sh[2] ELSE 0)
             + SumExposedIdx(t, I \ {i})

\* C1: every filter evaluation, the one with all ten accepted sets empty
\* included, succeeds and returns exactly the records that are members of
\* every non-empty accepted set, in their original order.
C1_FilterReturnsMatches ==
    (pc = "kpis" \/ (pc = "crashed" /\ err.at = "filter")) =>
        /\ pc = "kpis"
        /\ f.cols = df.cols
        /\ f.rows = MatchRows(df, sel, Len(df.rows))

\* C2: on every load path the table the filter is evaluated on carries
\* MGA_Flag, Limit_Band, Attachment_Band and Exposed_Limit, each equal to its
\* derivation from the row's source columns.
C2_FilterInputNormalized ==
    pc = "filter" =>
        /\ {"MGA_Flag", "Limit_Band", "Attachment_Band", "Exposed_Limit"} \subseteq df.cols
        /\ \A i \in 1..Len(df.rows) :
              LET r == df.rows[i]
              IN  /\ r["MGA_Flag"] = MGA_Flag(r["MGA"])
                  /\ r["Limit_Band"] = band_limit(r["Limit_Per_Occurrence"])
                  /\ r["Attachment_Band"] = band_attach(r["Attachment_Point"])
                  /\ r["Exposed_Limit"] =
                        Exposed_Limit(r["Limit_Per_Occurrence"], r["Share"])

\* C3: when the raw table is read and has every column, the load completes
\* with the full table, and every date or numeric cell holding text that
\* does not parse is null in it.
C3_MalformedCellsBecomeNull ==
    (LoadEnded /\ Source.sheet = "Policies" /\ Source.rows # <<>>
        /\ RawCols \subseteq Source.cols) =>
        /\ pc = "widgets"
        /\ Len(df.rows) = Len(Source.rows)
        /\ \A i \in 1..Len(df.rows) : \A c \in date_cols \cup num_cols :
              IsStr(Source.rows[i][c]) => df.rows[i][c] = NULL

\* C4: when the raw input lacks columns of the schema, the load ends in a
\* failure that names the missing columns, and no table is returned.
C4_MissingSchemaFails ==
    (LoadEnded /\ Source.sheet = "Policies" /\ Source.rows # <<>>
        /\ ~(RawCols \subseteq Source.cols)) =>
        /\ pc = "crashed"
        /\ {err.what} = RawCols \ Source.cols
        /\ Empty(df)

Labels == <<"$1M", "$2M", "$3M", "$5M", "$10M+">>
Rank(b) == CHOOSE k \in 1..Len(Labels) : Str(Labels[k]) = b

\* C5: for a number x, Limit_Band(x) is "$1M" up to 1,000,000, "$2M" up to
\* 2,000,000, "$3M" up to 3,000,000, "$5M" up to 5,000,000 and "$10M+" above:
\* one of the five labels, and non-decreasing in x.
C5_LimitBand ==
    (lband # Unset /\ IsNum(bx)) =>
        LET x == bx[2]
        IN  /\ \E k \in 1..Len(Labels) : lband = Str(Labels[k])
            /\ (lband = Str("$1M")) = (x <= 1000000)
            /\ (lband = Str("$2M")) = (1000000 < x /\ x <= 2000000)
            /\ (lband = Str("$3M")) = (2000000 < x /\ x <= 3000000)
            /\ (lband = Str("$5M")) = (3000000 < x /\ x <= 5000000)
            /\ (lband = Str("$10M+")) = (5000000 < x)
            /\ \A y \in BandInputs :
                  x <= y => Rank(lband) <= Rank(band_limit(Num(y)))

C5_Witness == lband = Str("$2M") /\ bx = Num(1000001)

\* C6: for a number x, Attachment_Band(x) is "$0 (Primary)" exactly when
\* x = 0, else "$1M" up to 1,000,000, "$2M" up to 2,000,000, "$5M" up to
\* 5,000,000 and "$10M+" above.
C6_AttachmentBand ==
    (aband # Unset /\ IsNum(bx)) =>
        LET x == bx[2]
        IN  /\ (aband = Str("$0 (Primary)")) = (x = 0)
            /\ (aband = Str("$1M")) = (x # 0 /\ x <= 1000000)
            /\ (aband = Str("$2M")) = (1000000 < x /\ x <= 2000000)
            /\ (aband = Str("$5M")) = (2000000 < x /\ x <= 5000000)
            /\ (aband = Str("$10M+")) = (5000000 < x)

C6_Witness == aband = Str("$5M") /\ bx = Num(5000000)

\* C7: the KPIs are those of the records of the table that match the
\* selection: their number, the sums of their premiums and exposed limits,
\* their share of Primary policies (in tenths of a percent, rounded) and the
\* number of their treaties; all five are 0 when no record matches, and the
\* KPI step raises only for a table that lacks a column it reads.
C7_KpiOfSubset ==
    /\ kpi # NoKpi =>
          LET M == MatchIdx(df, sel)
              n == Cardinality(M)
              p == Cardinality({i \in M : df.rows[i]["Policy_Type"] = Str("Primary")})
          IN  /\ kpi.policies = n
              /\ kpi.premium = SumIdx(df, "Annual_Premium", M)
              /\ kpi.exposed = SumExposedIdx(df, M)
              /\ kpi.treaties =
                    Cardinality({df.rows[i]["Business_ID"] : i \in M} \ {NULL})
              /\ 2 * n * kpi.primary_pct <= 2000 * p + n
              /\ 2000 * p - n <= 2 * n * kpi.primary_pct
              /\ kpi.primary_pct >= 0
              /\ M = {} => kpi = [policies |-> 0, premium |-> 0, exposed |-> 0,
                                  primary_pct |-> 0, treaties |-> 0]
    /\ (pc = "crashed" /\ err.at = "kpis") => ~(KpiCols \subseteq df.cols)
    /\ pc \in {"charts", "export", "done"} => kpi # NoKpi

C7_Witness ==
    /\ pc = "done" /\ df.rows # <<>> /\ f.rows = <<>>
    /\ kpi = [policies |-> 0, premium |-> 0, exposed |-> 0, primary_pct |-> 0,
              treaties |-> 0]

\* C8: loading the workbook that the export wrote gives a table equal, field
\* by field, to the subset that was exported.
C8_ExportRoundTrip ==
    (out # NoFile /\ upl = out /\ LoadEnded) =>
        /\ pc = "widgets"
        /\ df = outOf

\* the table the load of the current source produces
Canonical == IF upl # NoFile THEN read_excel(upl).tab ELSE load_policies(disk).tab

\* C9: at every position of a run after its load, through the filter, the
\* KPIs, the charts and the export, and in every later run on the same
\* source, the table is the one the load of that source produces (same rows,
\* values and order); the cached table stays that of the default workbook;
\* and every filtered subset is selected from that whole table.
C9_CanonicalUnchanged ==
    /\ pc \in {"widgets", "filter", "kpis", "charts", "export", "done"} => df = Canonical
    /\ (pc = "crashed" /\ err.at # "load") => df = Canonical
    /\ cache.set => cache.tab = load_policies(disk).tab
    /\ pc \in {"kpis", "charts", "export", "done"} =>
          f = [cols |-> Canonical.cols,
               rows |-> MatchRows(Canonical, sel, Len(Canonical.rows))]

C9_Witness ==
    /\ pc = "done" /\ upl = NoFile /\ reruns = 2
    /\ sel["UY"] = {} /\ sel["LOB"] # {}
    /\ Len(df.rows) = 2 /\ Len(f.rows) = 1 /\ df = cache.tab

\* C10: in a normalised table a null Limit_Per_Occurrence has a null
\* Limit_Band, a null Attachment_Point a null Attachment_Band, and a null
\* Limit_Per_Occurrence or Share a null Exposed_Limit.
C10_NullBands ==
    (pc = "widgets" /\ upl = NoFile) =>
        \A i \in 1..Len(df.rows) :
            LET r == df.rows[i]
            IN  /\ r["Limit_Per_Occurrence"] = NULL => r["Limit_Band"] = NULL
                /\ r["Attachment_Point"] = NULL => r["Attachment_Band"] = NULL
                /\ (r["Limit_Per_Occurrence"] = NULL \/ r["Share"] = NULL)
                      => r["Exposed_Limit"] = NULL

====
